---------------------------- MODULE Spec2Model ----------------------------
(***************************************************************************)
(* Model of src/error.rs of steamworks-rs: the SteamError enumeration, its *)
(* Display text (#[fail(display = ...)]), its derived serde encoding and   *)
(* the conversion impl From<sys::EResult> for SteamError.                  *)
(***************************************************************************)
EXTENDS Naturals, Sequences, FiniteSets, TLC

VARIABLES cur, watch

vars == <<cur, watch>>

(* Number of sys::EResult values modelled that have no arm of their own in *)
(* the match of SteamError::from (they fall to the `_` arm).               *)
NumUnlisted == 2

(***************************************************************************)
(* pub enum SteamError: the variants in declaration order, each with the   *)
(* text of its #[fail(display = "...")] attribute.                         *)
(***************************************************************************)
SteamErrorDecl == <<
    <<"InitFailed", "failed to init the steamworks API">>,
    <<"Generic", "a generic failure from the steamworks API">>,
    <<"NoConnection", "there isn't a network connection to steam or it failed to connect">>,
    <<"InvalidPassword", "password or ticket is invalid">>,
    <<"LoggedInElsewhere", "user logged in elsewhere">>,
    <<"InvalidProtocolVersion", "the protocol version is incorrect">>,
    <<"InvalidParameter", "a parameter is invalid">>,
    <<"FileNotFound", "a file was not found">>,
    <<"Busy", "method busy">>,
    <<"InvalidState", "object in invalid state">>,
    <<"InvalidName", "name is invalid">>,
    <<"InvalidEmail", "email is invalid">>,
    <<"DuplicateName", "name is not unique">>,
    <<"AccessDenied", "access denied">>,
    <<"Timeout", "operation timed out">>,
    <<"Banned", "VAC2 banned">>,
    <<"AccountNotFound", "account not found">>,
    <<"InvalidSteamID", "steamID is invalid">>,
    <<"ServiceUnavailable", "requested service is unavailable">>,
    <<"NotLoggedOn", "user not logged on">>,
    <<"Pending", "request is pending">>,
    <<"EncryptionFailure", "encryption/decryption failed">>,
    <<"InsufficientPrivilege", "insufficient privilege">>,
    <<"LimitExceeded", "limit exceeded">>,
    <<"Revoked", "access revoked">>,
    <<"Expired", "access expired">>,
    <<"AlreadyRedeemed", "licence/guest pass already redeemed">>,
    <<"DuplicateRequest", "request is a duplicate">>,
    <<"AlreadyOwned", "all games requested already owned">>,
    <<"IPNotFound", "ip address not found">>,
    <<"PersistFailed", "failed to write change">>,
    <<"LockingFailed", "failed to acquire access lock">>,
    <<"LogonSessionReplaced", "logon session replaced">>,
    <<"ConnectFailed", "connect failed">>,
    <<"HandshakeFailed", "handshake failed">>,
    <<"IOFailure", "IO failure">>,
    <<"RemoteDisconnect", "remote disconnect">>,
    <<"ShoppingCartNotFound", "failed to find the requested shopping cart">>,
    <<"Blocked", "action blocked">>,
    <<"Ignored", "target is ignoring sender">>,
    <<"NoMatch", "no matches found">>,
    <<"AccountDisabled", "account disabled">>,
    <<"ServiceReadOnly", "service is read only">>,
    <<"AccountNotFeatured", "account not featured">>,
    <<"AdministratorOK", "administrator ok">>,
    <<"ContentVersion", "version mismatch with transmitted content">>,
    <<"TryAnotherCM", "CM cannot service user">>,
    <<"PasswordRequiredToKickSession", "user already logged in, cached login failed">>,
    <<"AlreadyLoggedInElsewhere", "user already logged in, please wait">>,
    <<"Suspended", "operation suspended/paused">>,
    <<"Cancelled", "operation cancelled">>,
    <<"DataCorruption", "operation cancelled due to data corruption">>,
    <<"DiskFull", "operation cancelled due to the disk being full">>,
    <<"RemoteCallFailed", "remote/IPC call failed">>,
    <<"PasswordUnset", "cannot verify unset password">>,
    <<"ExternalAccountUnlinked", "external account not linked to steam">>,
    <<"PSNTicketInvalid", "PSN ticket invalid">>,
    <<"ExternalAccountAlreadyLinked", "external account already linked">>,
    <<"RemoteFileConflict", "sync conflict between remote and local files">>,
    <<"IllegalPassword", "new password is illegal">>,
    <<"SameAsPreviousValue", "new value is the same as old value">>,
    <<"AccountLogonDenied", "2nd factor authentication failed">>,
    <<"CannotUseOldPassword", "cannot use old password">>,
    <<"InvalidLoginAuthCode", "invalid login auth code">>,
    <<"AccountLogonDeniedNoMail", "no email for 2nd factor authentication">>,
    <<"HardwareNotCapableOfIPT", "hardware not capable of IPT">>,
    <<"IPTInitError", "IPT init error">>,
    <<"ParentalControlRestricted", "restricted due to parental controls">>,
    <<"FacebookQueryError", "facebook query failed">>,
    <<"ExpiredLoginAuthCode", "login denied due to exipred auth code">>,
    <<"IPLoginRestrictionFailed", "IP login restriction failed">>,
    <<"AccountLockedDown", "account locked down">>,
    <<"AccountLogonDeniedVerifiedEmailRequired", "account logon denied verified email required">>,
    <<"NoMatchingURL", "no matching URL">>,
    <<"BadResponse", "bad response">>,
    <<"RequirePasswordReEntry", "password re-entry required">>,
    <<"ValueOutOfRange", "value is out of range">>,
    <<"UnexpectedError", "unexpected error">>,
    <<"Disabled", "service disabled">>,
    <<"InvalidCEGSubmission", "submitted files to CEG are invalid">>,
    <<"RestrictedDevice", "device is restricted from action">>,
    <<"RegionLocked", "region restrictions prevented action">>,
    <<"RateLimitExceeded", "temporary rate limit exceeded">>,
    <<"AccountLoginDeniedNeedTwoFactor", "two-factor authetication required for login">>,
    <<"ItemDeleted", "item deleted">>,
    <<"AccountLoginDeniedThrottle", "account login denied, throttled">>,
    <<"TwoFactorCodeMismatch", "two-factor code mismatched">>,
    <<"TwoFactorActivationCodeMismatch", "two-factor activation code mismatched">>,
    <<"AccountAssociatedToMultiplePartners", "account associated to multiple partners">>,
    <<"NotModified", "data not modified">>,
    <<"NoMobileDevice", "no mobile device associated with account">>,
    <<"TimeNotSynced", "time not synced correctly">>,
    <<"SmsCodeFailed", "sms code validation failed">>,
    <<"AccountLimitExceeded", "account limit exceeded for resource">>,
    <<"AccountActivityLimitExceeded", "account activity limit exceeded">>,
    <<"PhoneActivityLimitExceeded", "phone activity limited exceeded">>,
    <<"RefundToWallet", "must refund to wallet instead of payment method">>,
    <<"EmailSendFailure", "email sending failed">>,
    <<"NotSettled", "action cannot be performed until payment has settled">>,
    <<"NeedCaptcha", "valid captcha required">>,
    <<"GSLTDenied", "game server login token has been banned">>,
    <<"GSOwnerDenied", "game server owner denied">>,
    <<"InvalidItemType", "invalid item type">>,
    <<"IPBanned", "IP banned from action">>,
    <<"GSLTExpired", "game server login token expired">>,
    <<"InsufficientFunds", "insufficient wallet funds for action">>,
    <<"TooManyPending", "too many actions pending">>,
    <<"NoSiteLicensesFound", "no site licenses found">>,
    <<"WGNetworkSendExceeded", "WG network send size exceeded">>
>>

(***************************************************************************)
(* The arms of `match r` in SteamError::from, in source order.  An arm     *)
(* either evaluates to a variant or panics with a message.                 *)
(***************************************************************************)
Value(v) == [kind |-> "value", value |-> v]

Panic(msg) == [kind |-> "panic", value |-> msg]

Arms == <<
    [pat |-> "k_EResultOK", body |-> Panic("EResult::k_EResultOK isn't an error")],
    [pat |-> "k_EResultFail", body |-> Value("Generic")],
    [pat |-> "k_EResultNoConnection", body |-> Value("NoConnection")],
    [pat |-> "k_EResultInvalidPassword", body |-> Value("InvalidPassword")],
    [pat |-> "k_EResultLoggedInElsewhere", body |-> Value("LoggedInElsewhere")],
    [pat |-> "k_EResultInvalidProtocolVer", body |-> Value("InvalidProtocolVersion")],
    [pat |-> "k_EResultInvalidParam", body |-> Value("InvalidParameter")],
    [pat |-> "k_EResultFileNotFound", body |-> Value("FileNotFound")],
    [pat |-> "k_EResultBusy", body |-> Value("Busy")],
    [pat |-> "k_EResultInvalidState", body |-> Value("InvalidState")],
    [pat |-> "k_EResultInvalidName", body |-> Value("InvalidName")],
    [pat |-> "k_EResultInvalidEmail", body |-> Value("InvalidEmail")],
    [pat |-> "k_EResultDuplicateName", body |-> Value("DuplicateName")],
    [pat |-> "k_EResultAccessDenied", body |-> Value("AccessDenied")],
    [pat |-> "k_EResultTimeout", body |-> Value("Timeout")],
    [pat |-> "k_EResultBanned", body |-> Value("Banned")],
    [pat |-> "k_EResultAccountNotFound", body |-> Value("AccountNotFound")],
    [pat |-> "k_EResultInvalidSteamID", body |-> Value("InvalidSteamID")],
    [pat |-> "k_EResultServiceUnavailable", body |-> Value("ServiceUnavailable")],
    [pat |-> "k_EResultNotLoggedOn", body |-> Value("NotLoggedOn")],
    [pat |-> "k_EResultPending", body |-> Value("Pending")],
    [pat |-> "k_EResultEncryptionFailure", body |-> Value("EncryptionFailure")],
    [pat |-> "k_EResultInsufficientPrivilege", body |-> Value("InsufficientPrivilege")],
    [pat |-> "k_EResultLimitExceeded", body |-> Value("LimitExceeded")],
    [pat |-> "k_EResultRevoked", body |-> Value("Revoked")],
    [pat |-> "k_EResultExpired", body |-> Value("Expired")],
    [pat |-> "k_EResultAlreadyRedeemed", body |-> Value("AlreadyRedeemed")],
    [pat |-> "k_EResultDuplicateRequest", body |-> Value("DuplicateRequest")],
    [pat |-> "k_EResultAlreadyOwned", body |-> Value("AlreadyOwned")],
    [pat |-> "k_EResultIPNotFound", body |-> Value("IPNotFound")],
    [pat |-> "k_EResultPersistFailed", body |-> Value("PersistFailed")],
    [pat |-> "k_EResultLockingFailed", body |-> Value("LockingFailed")],
    [pat |-> "k_EResultLogonSessionReplaced", body |-> Value("LogonSessionReplaced")],
    [pat |-> "k_EResultConnectFailed", body |-> Value("ConnectFailed")],
    [pat |-> "k_EResultHandshakeFailed", body |-> Value("HandshakeFailed")],
    [pat |-> "k_EResultIOFailure", body |-> Value("IOFailure")],
    [pat |-> "k_EResultRemoteDisconnect", body |-> Value("RemoteDisconnect")],
    [pat |-> "k_EResultShoppingCartNotFound", body |-> Value("ShoppingCartNotFound")],
    [pat |-> "k_EResultBlocked", body |-> Value("Blocked")],
    [pat |-> "k_EResultIgnored", body |-> Value("Ignored")],
    [pat |-> "k_EResultNoMatch", body |-> Value("NoMatch")],
    [pat |-> "k_EResultAccountDisabled", body |-> Value("AccountDisabled")],
    [pat |-> "k_EResultServiceReadOnly", body |-> Value("ServiceReadOnly")],
    [pat |-> "k_EResultAccountNotFeatured", body |-> Value("AccountNotFeatured")],
    [pat |-> "k_EResultAdministratorOK", body |-> Value("AdministratorOK")],
    [pat |-> "k_EResultContentVersion", body |-> Value("ContentVersion")],
    [pat |-> "k_EResultTryAnotherCM", body |-> Value("TryAnotherCM")],
    [pat |-> "k_EResultPasswordRequiredToKickSession", body |-> Value("PasswordRequiredToKickSession")],
    [pat |-> "k_EResultAlreadyLoggedInElsewhere", body |-> Value("AlreadyLoggedInElsewhere")],
    [pat |-> "k_EResultSuspended", body |-> Value("Suspended")],
    [pat |-> "k_EResultCancelled", body |-> Value("Cancelled")],
    [pat |-> "k_EResultDataCorruption", body |-> Value("DataCorruption")],
    [pat |-> "k_EResultDiskFull", body |-> Value("DiskFull")],
    [pat |-> "k_EResultRemoteCallFailed", body |-> Value("RemoteCallFailed")],
    [pat |-> "k_EResultPasswordUnset", body |-> Value("PasswordUnset")],
    [pat |-> "k_EResultExternalAccountUnlinked", body |-> Value("ExternalAccountUnlinked")],
    [pat |-> "k_EResultPSNTicketInvalid", body |-> Value("PSNTicketInvalid")],
    [pat |-> "k_EResultExternalAccountAlreadyLinked", body |-> Value("ExternalAccountAlreadyLinked")],
    [pat |-> "k_EResultRemoteFileConflict", body |-> Value("RemoteFileConflict")],
    [pat |-> "k_EResultIllegalPassword", body |-> Value("IllegalPassword")],
    [pat |-> "k_EResultSameAsPreviousValue", body |-> Value("SameAsPreviousValue")],
    [pat |-> "k_EResultAccountLogonDenied", body |-> Value("AccountLogonDenied")],
    [pat |-> "k_EResultCannotUseOldPassword", body |-> Value("CannotUseOldPassword")],
    [pat |-> "k_EResultInvalidLoginAuthCode", body |-> Value("InvalidLoginAuthCode")],
    [pat |-> "k_EResultAccountLogonDeniedNoMail", body |-> Value("AccountLogonDeniedNoMail")],
    [pat |-> "k_EResultHardwareNotCapableOfIPT", body |-> Value("HardwareNotCapableOfIPT")],
    [pat |-> "k_EResultIPTInitError", body |-> Value("IPTInitError")],
    [pat |-> "k_EResultParentalControlRestricted", body |-> Value("ParentalControlRestricted")],
    [pat |-> "k_EResultFacebookQueryError", body |-> Value("FacebookQueryError")],
    [pat |-> "k_EResultExpiredLoginAuthCode", body |-> Value("ExpiredLoginAuthCode")],
    [pat |-> "k_EResultIPLoginRestrictionFailed", body |-> Value("IPLoginRestrictionFailed")],
    [pat |-> "k_EResultAccountLockedDown", body |-> Value("AccountLockedDown")],
    [pat |-> "k_EResultAccountLogonDeniedVerifiedEmailRequired", body |-> Value("AccountLogonDeniedVerifiedEmailRequired")],
    [pat |-> "k_EResultNoMatchingURL", body |-> Value("NoMatchingURL")],
    [pat |-> "k_EResultBadResponse", body |-> Value("BadResponse")],
    [pat |-> "k_EResultRequirePasswordReEntry", body |-> Value("RequirePasswordReEntry")],
    [pat |-> "k_EResultValueOutOfRange", body |-> Value("ValueOutOfRange")],
    [pat |-> "k_EResultUnexpectedError", body |-> Value("UnexpectedError")],
    [pat |-> "k_EResultDisabled", body |-> Value("Disabled")],
    [pat |-> "k_EResultInvalidCEGSubmission", body |-> Value("InvalidCEGSubmission")],
    [pat |-> "k_EResultRestrictedDevice", body |-> Value("RestrictedDevice")],
    [pat |-> "k_EResultRegionLocked", body |-> Value("RegionLocked")],
    [pat |-> "k_EResultRateLimitExceeded", body |-> Value("RateLimitExceeded")],
    [pat |-> "k_EResultAccountLoginDeniedNeedTwoFactor", body |-> Value("AccountLoginDeniedNeedTwoFactor")],
    [pat |-> "k_EResultItemDeleted", body |-> Value("ItemDeleted")],
    [pat |-> "k_EResultAccountLoginDeniedThrottle", body |-> Value("AccountLoginDeniedThrottle")],
    [pat |-> "k_EResultTwoFactorCodeMismatch", body |-> Value("TwoFactorCodeMismatch")],
    [pat |-> "k_EResultTwoFactorActivationCodeMismatch", body |-> Value("TwoFactorActivationCodeMismatch")],
    [pat |-> "k_EResultAccountAssociatedToMultiplePartners", body |-> Value("AccountAssociatedToMultiplePartners")],
    [pat |-> "k_EResultNotModified", body |-> Value("NotModified")],
    [pat |-> "k_EResultNoMobileDevice", body |-> Value("NoMobileDevice")],
    [pat |-> "k_EResultTimeNotSynced", body |-> Value("TimeNotSynced")],
    [pat |-> "k_EResultSmsCodeFailed", body |-> Value("SmsCodeFailed")],
    [pat |-> "k_EResultAccountLimitExceeded", body |-> Value("AccountLimitExceeded")],
    [pat |-> "k_EResultAccountActivityLimitExceeded", body |-> Value("AccountActivityLimitExceeded")],
    [pat |-> "k_EResultPhoneActivityLimitExceeded", body |-> Value("PhoneActivityLimitExceeded")],
    [pat |-> "k_EResultRefundToWallet", body |-> Value("RefundToWallet")],
    [pat |-> "k_EResultEmailSendFailure", body |-> Value("EmailSendFailure")],
    [pat |-> "k_EResultNotSettled", body |-> Value("NotSettled")],
    [pat |-> "k_EResultNeedCaptcha", body |-> Value("NeedCaptcha")],
    [pat |-> "k_EResultGSLTDenied", body |-> Value("GSLTDenied")],
    [pat |-> "k_EResultGSOwnerDenied", body |-> Value("GSOwnerDenied")],
    [pat |-> "k_EResultInvalidItemType", body |-> Value("InvalidItemType")],
    [pat |-> "k_EResultIPBanned", body |-> Value("IPBanned")],
    [pat |-> "k_EResultGSLTExpired", body |-> Value("GSLTExpired")],
    [pat |-> "k_EResultInsufficientFunds", body |-> Value("InsufficientFunds")],
    [pat |-> "k_EResultTooManyPending", body |-> Value("TooManyPending")],
    [pat |-> "k_EResultNoSiteLicensesFound", body |-> Value("NoSiteLicensesFound")],
    [pat |-> "k_EResultWGNetworkSendExceeded", body |-> Value("WGNetworkSendExceeded")]
>>

(* Number of enum identifiers presented to the derived Deserialize that no *)
(* variant of SteamError answers to (per identifier kind).                 *)
NumForeign == 2

(* The variants of SteamError.                                             *)
SteamError == {SteamErrorDecl[i][1] : i \in DOMAIN SteamErrorDecl}

(* The position of a variant in the declaration, counted from 0, as the    *)
(* derives number the variants.                                            *)
VariantIndex ==
    [v \in SteamError |->
        (CHOOSE i \in DOMAIN SteamErrorDecl : SteamErrorDecl[i][1] = v) - 1]

variant_index(v) == VariantIndex[v]

(* The display text of every variant, as #[derive(Fail)] reads it from the *)
(* #[fail(display = "...")] attribute of the variant.                      *)
DisplayTable ==
    [v \in SteamError |-> SteamErrorDecl[variant_index(v) + 1][2]]

(* `_ => unreachable!()`, the last arm of the match.                       *)
Unreachable ==
    [kind |-> "unreachable", value |-> "internal error: entered unreachable code"]

(* sys::EResult: the codes named by an arm of the match, and codes of the  *)
(* enumeration that only the `_` arm matches.                              *)
Listed == {Arms[i].pat : i \in DOMAIN Arms}

Unlisted == {"k_EResultUnlisted" \o ToString(i) : i \in 1..NumUnlisted}

EResult == Listed \cup Unlisted

(* match r { ... }: the first arm whose pattern is r decides; `_` is last. *)
MatchTable ==
    [r \in EResult |->
        LET hits == {i \in DOMAIN Arms : Arms[i].pat = r}
        IN  IF hits = {} THEN Unreachable
            ELSE Arms[CHOOSE i \in hits : \A j \in hits : i <= j].body]

(* A call: the operation, its argument and its outcome.                    *)
NoCall == [op |-> "none", arg |-> "", out |-> [kind |-> "none", value |-> ""]]

(* ---- faulty variants of the operations ---- *)

(* the arm of k_EResultOK returns Generic instead of panicking *)
from_okReturns(r) ==
    IF r = "k_EResultOK" THEN Value("Generic") ELSE MatchTable[r]

(* a copy-paste slip: k_EResultInvalidParam returns InvalidPassword *)
from_copyPaste(r) ==
    IF r = "k_EResultInvalidParam" THEN Value("InvalidPassword") ELSE MatchTable[r]

(* the arm of k_EResultTimeout is missing: the code falls to `_` *)
from_dropArm(r) ==
    IF r = "k_EResultTimeout" THEN Unreachable ELSE MatchTable[r]

(* two arms swapped their results *)
from_swapped(r) ==
    CASE r = "k_EResultAccessDenied" -> Value("Timeout")
      [] r = "k_EResultTimeout" -> Value("AccessDenied")
      [] OTHER -> MatchTable[r]

(* the `_` arm returns a catch-all variant instead of aborting *)
from_catchAll(r) ==
    IF MatchTable[r].kind = "unreachable" THEN Value("Generic") ELSE MatchTable[r]

(* a converter that stays poisoned once a conversion has aborted *)
from_poisoned(r) ==
    IF cur.op = "from" /\ cur.out.kind # "value" THEN cur.out ELSE MatchTable[r]

(* the arms are shifted by one variant: k_EResultFail returns InitFailed *)
from_initFailed(r) ==
    IF r = "k_EResultFail" THEN Value("InitFailed") ELSE MatchTable[r]

(* two variants carry the same display text *)
fmt_duplicate(v) ==
    IF v = "AlreadyLoggedInElsewhere"
    THEN Value(DisplayTable["LoggedInElsewhere"])
    ELSE Value(DisplayTable[v])

(* the arm of k_EResultOK is missing: the success code falls to `_` *)
from_okFallsThrough(r) ==
    IF r = "k_EResultOK" THEN Unreachable ELSE MatchTable[r]

(* a variant whose display attribute is the empty string *)
fmt_empty(v) ==
    IF v = "InitFailed" THEN Value("") ELSE Value(DisplayTable[v])

(* two variants are written alike: Generic takes the tag of InitFailed *)
serialize_sameIndex(v) ==
    [kind |-> "value",
     value |-> [name |-> "SteamError",
                variant_index |-> IF v = "Generic" THEN 0 ELSE variant_index(v),
                variant |-> IF v = "Generic" THEN "InitFailed" ELSE v]]

(* ---- the operations ---- *)

(* impl From<sys::EResult> for SteamError: fn from(r) *)
from(r) == MatchTable[r]

(* impl Display for SteamError (derive(Fail)): the text of the variant *)
fmt(v) == Value(DisplayTable[v])

(* derive(Serialize): serialize_unit_variant("SteamError", index, name) *)
serialize(v) ==
    [kind |-> "value",
     value |-> [name |-> "SteamError",
                variant_index |-> variant_index(v),
                variant |-> v]]

(* What a data format hands to the derived Deserialize to name a variant:  *)
(* the index (visit_u64) or the name (visit_str).                          *)
U64(i) == [kind |-> "u64", u64 |-> i, str |-> ""]

Str(s) == [kind |-> "str", u64 |-> 0, str |-> s]

Err(msg) == [kind |-> "err", value |-> msg]

(* derive(Deserialize): the variant identifier visitor *)
deserialize(id) ==
    IF id.kind = "u64"
    THEN IF id.u64 < Len(SteamErrorDecl)
         THEN Value(SteamErrorDecl[id.u64 + 1][1])
         ELSE Err("invalid value")
    ELSE IF id.str \in SteamError
         THEN Value(id.str)
         ELSE Err("unknown variant")

(* One earlier call is kept in watch: the first one chosen to be kept.     *)
Remember ==
    \/ watch' = watch
    \/ watch.op = "none" /\ watch' = cur

Init == cur = NoCall /\ watch = NoCall

CallFrom(r) ==
    /\ cur' = [op |-> "from", arg |-> r, out |-> from(r)]
    /\ Remember

CallFmt(v) ==
    /\ cur' = [op |-> "fmt", arg |-> v, out |-> fmt(v)]
    /\ Remember

Next ==
    \/ \E r \in EResult : CallFrom(r)
    \/ \E v \in SteamError : CallFmt(v)

Spec == Init /\ [][Next]_vars

(* The identifiers a format presents: those of the value just serialized,  *)
(* and identifiers written by something else.                              *)
ForeignIdents ==
    {U64(Len(SteamErrorDecl) + i - 1) : i \in 1..NumForeign}
        \cup {Str("Foreign" \o ToString(i)) : i \in 1..NumForeign}

Presented ==
    IF cur.op = "serialize"
    THEN {U64(cur.out.value.variant_index), Str(cur.out.value.variant)}
             \cup ForeignIdents
    ELSE ForeignIdents

CallSerialize(v) ==
    /\ cur' = [op |-> "serialize", arg |-> v, out |-> serialize(v)]
    /\ Remember

CallDeserialize(id) ==
    /\ cur' = [op |-> "deserialize", arg |-> id, out |-> deserialize(id)]
    /\ Remember

NextSerde ==
    \/ \E v \in SteamError : CallSerialize(v)
    \/ \E id \in Presented : CallDeserialize(id)

SpecSerde == Init /\ [][NextSerde]_vars

(***************************************************************************)
(* Properties.                                                             *)
(***************************************************************************)

(* The external failure codes: every code the conversion lists, except OK. *)
FailureCodes == Listed \ {"k_EResultOK"}

(* The documented correspondence: the variant is named after the code,     *)
(* with three renamed cases.                                               *)
Documented(c, v) ==
    CASE c = "k_EResultFail" -> v = "Generic"
      [] c = "k_EResultInvalidProtocolVer" -> v = "InvalidProtocolVersion"
      [] c = "k_EResultInvalidParam" -> v = "InvalidParameter"
      [] OTHER -> c = "k_EResult" \o v

(* The number of external failure codes that from converts to variant v.   *)
PreimageCount(v) == Cardinality({c \in FailureCodes : from(c) = Value(v)})

(* C1: for every listed external failure code, from returns the variant    *)
(* named after the code (Fail -> Generic, InvalidProtocolVer ->            *)
(* InvalidProtocolVersion, InvalidParam -> InvalidParameter) and does not  *)
(* abort.                                                                  *)
C1_DocumentedVariant ==
    cur.op = "from" /\ cur.arg \in FailureCodes
        => /\ cur.out.kind = "value"
           /\ cur.out.value \in SteamError
           /\ Documented(cur.arg, cur.out.value)

C1_Witness ==
    /\ cur.op = "from"
    /\ cur.arg = "k_EResultInvalidProtocolVer"
    /\ cur.out = Value("InvalidProtocolVersion")

(* C2: converting k_EResultOK panics and yields no SteamError variant,     *)
(* whatever calls preceded it.                                             *)
C2_OkPanics ==
    cur.op = "from" /\ cur.arg = "k_EResultOK"
        => /\ cur.out.kind = "panic"
           /\ \A v \in SteamError : cur.out # Value(v)

C2_Witness ==
    /\ cur.op = "from"
    /\ cur.arg = "k_EResultOK"
    /\ cur.out.kind = "panic"
    /\ watch.op = "fmt"

(* C3: the conversion is injective on the failure codes: two distinct      *)
(* failure codes never convert to the same variant.                        *)
C3_Injective ==
    (/\ watch.op = "from" /\ cur.op = "from"
     /\ watch.arg \in FailureCodes /\ cur.arg \in FailureCodes
     /\ watch.arg # cur.arg)
        => watch.out # cur.out

C3_Witness ==
    /\ watch.op = "from" /\ watch.arg = "k_EResultInvalidParam"
    /\ cur.op = "from" /\ cur.arg = "k_EResultInvalidPassword"
    /\ watch.out.kind = "value" /\ cur.out.kind = "value"

(* C4 as stated: every SteamError variant is the image under from of       *)
(* exactly one external failure code (a bijection between the failure      *)
(* codes and the whole set of variants).                                   *)
C4_Original ==
    /\ cur.op = "from" /\ cur.arg \in FailureCodes
           => cur.out.kind = "value" /\ cur.out.value \in SteamError
    /\ cur.op = "fmt" => PreimageCount(cur.arg) = 1

(* C4, amended: every SteamError variant other than InitFailed is the      *)
(* image under from of exactly one external failure code, and from returns *)
(* no other value on a failure code: a bijection between the failure codes *)
(* and the variants other than InitFailed.                                 *)
C4_BijectionButInitFailed ==
    /\ cur.op = "from" /\ cur.arg \in FailureCodes
           => /\ cur.out.kind = "value"
              /\ cur.out.value \in SteamError \ {"InitFailed"}
    /\ cur.op = "fmt" /\ cur.arg # "InitFailed" => PreimageCount(cur.arg) = 1

C4_Witness ==
    /\ cur.op = "fmt"
    /\ cur.arg = "WGNetworkSendExceeded"
    /\ PreimageCount(cur.arg) = 1

C6_Original ==
    /\ cur.op = "from" => (cur.out.kind # "value" <=> cur.arg = "k_EResultOK")
    /\ cur.op = "fmt" => cur.out.kind = "value"

(* C6, amended: from aborts if and only if its argument is the success     *)
(* code or a code that no arm of the match names, and fmt never aborts.    *)
C6_AbortsOnlyOkOrUnlisted ==
    /\ cur.op = "from"
           => (cur.out.kind # "value"
                   <=> cur.arg = "k_EResultOK" \/ cur.arg \notin Listed)
    /\ cur.op = "fmt" => cur.out.kind = "value"

C6_Witness ==
    /\ cur.op = "from"
    /\ cur.arg \in Unlisted
    /\ cur.out.kind = "unreachable"

(* C7: for a code that no arm of the match names, from aborts through      *)
(* unreachable!() and returns no variant: there is no catch-all variant.   *)
C7_UnlistedAborts ==
    cur.op = "from" /\ cur.arg \notin Listed
        => /\ cur.out = Unreachable
           /\ \A v \in SteamError : cur.out # Value(v)

C7_Witness ==
    /\ cur.op = "from" /\ cur.arg = "k_EResultUnlisted1" /\ cur.out = Unreachable
    /\ watch.op = "from" /\ watch.out.kind = "value"

(* C8: for every variant, InitFailed included, fmt returns a non-empty     *)
(* text and never fails, and a repeated call returns the same text as the  *)
(* earlier one, whatever was called in between.                            *)
C8_FmtNonEmptyStable ==
    /\ cur.op = "fmt" => cur.out.kind = "value" /\ Len(cur.out.value) > 0
    /\ watch.op = "fmt" /\ cur.op = "fmt" /\ watch.arg = cur.arg
           => cur.out = watch.out

C8_Witness ==
    /\ watch.op = "fmt" /\ watch.arg = "InitFailed"
    /\ cur.op = "fmt" /\ cur.arg = "InitFailed"
    /\ cur.out = Value("failed to init the steamworks API")

C11_ImageIsAllButInitFailed ==
    /\ cur.op = "from" => cur.out # Value("InitFailed")
    /\ cur.op = "fmt"
           => IF cur.arg = "InitFailed"
              THEN \A c \in EResult : from(c) # Value(cur.arg)
              ELSE \E c \in FailureCodes : from(c) = Value(cur.arg)

C11_Witness ==
    /\ watch.op = "fmt" /\ watch.arg = "InitFailed"
    /\ cur.op = "from" /\ cur.arg = "k_EResultFail"
    /\ cur.out = Value("Generic")

(* C12: the display texts are pairwise distinct: fmt of two distinct       *)
(* variants never returns the same text.                                   *)
C12_DistinctTexts ==
    (/\ watch.op = "fmt" /\ cur.op = "fmt"
     /\ watch.arg # cur.arg)
        => watch.out.value # cur.out.value

C12_Witness ==
    /\ watch.op = "fmt" /\ watch.arg = "LoggedInElsewhere"
    /\ cur.op = "fmt" /\ cur.arg = "AlreadyLoggedInElsewhere"
    /\ watch.out.kind = "value" /\ cur.out.kind = "value"

(* C13: the two aborts of from differ and neither is a SteamError value:   *)
(* the success code aborts with the message "EResult::k_EResultOK isn't an *)
(* error", a code without an arm aborts through the unreachable arm, and   *)
(* the success code, matched by its own arm first, never ends in the       *)
(* unreachable arm.                                                        *)
C13_AbortsDistinguished ==
    /\ cur.op = "from" /\ cur.arg = "k_EResultOK"
           => /\ cur.out = Panic("EResult::k_EResultOK isn't an error")
              /\ cur.out # Unreachable
    /\ cur.op = "from" /\ cur.arg \notin Listed
           => /\ cur.out.kind = "unreachable"
              /\ cur.out.value # "EResult::k_EResultOK isn't an error"
    /\ cur.op = "from" /\ cur.out.kind # "value"
           => \A v \in SteamError : cur.out.value # v
    /\ (/\ watch.op = "from" /\ watch.arg = "k_EResultOK"
        /\ cur.op = "from" /\ cur.arg \notin Listed)
           => watch.out.kind # cur.out.kind /\ watch.out.value # cur.out.value

C13_Witness ==
    /\ watch.op = "from" /\ watch.arg = "k_EResultOK"
    /\ watch.out.kind = "panic"
    /\ cur.op = "from" /\ cur.arg \in Unlisted
    /\ cur.out.kind = "unreachable"

=============================================================================
